---- MODULE Spec2Model ----
(***************************************************************************)
(* Bocker (src/bocker_impl.py): the image/container store, the per-        *)
(* container network artefacts and cgroups, and the commands init, pull,   *)
(* rm, commit and run.  run is the bash script of Bocker.run executed one  *)
(* script line per step under "set -o errexit"; the other commands are one *)
(* step each.  Strings are sequences of one-character strings, so that the *)
(* substring test of _bocker_check, the join of the arguments and the      *)
(* strip() of the listings are computed as the code computes them.         *)
(***************************************************************************)
EXTENDS Integers, Sequences, FiniteSets, TLC

(* ------------------------------ bounds -------------------------------- *)
\* how many of the ids of random.randint(UuidLo, UuidHi) the model draws
MaxDraw == 1
\* how many CLI invocations a behaviour holds
MaxCmds == 3
\* how many lines of output the contained command emits at most
MaxOut == 1

(* ------------------------- program constants -------------------------- *)
UuidLo == 42002
UuidHi == 42254
CpuShare == 512
MemLimit == 512

(* ------------------------------ strings ------------------------------- *)
S_img == <<"i", "m", "g", "_">>
S_ps == <<"p", "s", "_">>
NL == "\n"
Whitespace == {" ", NL, "\t"}

DigitChars == <<"0", "1", "2", "3", "4", "5", "6", "7", "8", "9">>

RECURSIVE ToStr(_)
\* str(n) of a natural number
ToStr(n) == IF n < 10 THEN <<DigitChars[n + 1]>>
            ELSE ToStr(n \div 10) \o <<DigitChars[(n % 10) + 1]>>

\* python: s in t
IsSubstr(s, t) == \E i \in 0..(Len(t) - Len(s)) : SubSeq(t, i + 1, i + Len(s)) = s

HasPrefix(s, p) == Len(s) >= Len(p) /\ SubSeq(s, 1, Len(p)) = p

RECURSIVE LStrip(_)
LStrip(s) == IF s # <<>> /\ Head(s) \in Whitespace THEN LStrip(Tail(s)) ELSE s

RECURSIVE RStrip(_)
RStrip(s) == IF s # <<>> /\ s[Len(s)] \in Whitespace
             THEN RStrip(SubSeq(s, 1, Len(s) - 1)) ELSE s

\* the string as it is, not stripped
NoStrip(s) == s

\* python: s.strip()
Strip(s) == RStrip(LStrip(s))

RECURSIVE Join(_)
\* python: ' '.join(args)
Join(args) == IF args = <<>> THEN <<>>
              ELSE IF Len(args) = 1 THEN args[1]
              ELSE args[1] \o <<" ">> \o Join(Tail(args))

\* python: s.replace(c, '')
RECURSIVE RemoveChar(_, _)
RemoveChar(s, c) == IF s = <<>> THEN <<>>
                    ELSE IF Head(s) = c THEN RemoveChar(Tail(s), c)
                    ELSE <<Head(s)>> \o RemoveChar(Tail(s), c)

\* bash: echo "<s>" > file, for s free of shell metacharacters
EchoLine(s) == s \o <<NL>>

(* ------------------------------- store -------------------------------- *)
\* file names inside a volume
F_source == <<"img.source">>
F_etc == <<"etc">>
F_resolv == <<"etc/resolv.conf">>
F_data == <<"data">>
F_sh == <<"bin/sh">>
CmdFile(id) == id \o <<".cmd">>
LogFile(id) == id \o <<".log">>

EmptyTree == [k \in {} |-> <<>>]

\* f with key k set to v
Put(f, k, v) == (k :> v) @@ f

\* f with every key removed
DropAll(f, k) == [x \in {} |-> f[x]]

\* f with key k kept
Keep(f, k) == f

\* f without key k
Drop(f, k) == [x \in (DOMAIN f) \ {k} |-> f[x]]

\* one line of `btrfs subvolume list <store>`; the numbers are written "#"
ListLine(name) ==
    <<"I", "D", " ", "#", " ", "g", "e", "n", " ", "#", " ", "t", "o", "p", " ",
      "l", "e", "v", "e", "l", " ", "#", " ", "p", "a", "t", "h", " ">> \o name

\* _bocker_check: container_id in result.stdout.  An id holds no newline, so it
\* is in the output iff it is empty or inside one line of it.
bocker_check(st, id) ==
    \/ id = <<>>
    \/ \E v \in DOMAIN st : IsSubstr(id, ListLine(v))

\* an id whose number is drawn above the range
wide_uuid(prefix, n) == prefix \o ToStr(n + UuidHi)

\* _generate_uuid: prefix + str(random.randint(42002, 42254)), n the number drawn
generate_uuid(prefix, n) == prefix \o ToStr(n)

\* the numbers the model lets random.randint draw
RandRange == {n \in UuidLo..UuidHi : n < UuidLo + MaxDraw}

\* _list_images: glob img_*, rows (id, stripped img.source), volumes without
\* an img.source skipped
list_images(st) ==
    { <<v, Strip(st[v][F_source])>> :
        v \in {w \in DOMAIN st : HasPrefix(w, S_img) /\ F_source \in DOMAIN st[w]} }

\* _list_containers: glob ps_*, rows (id, stripped <id>.cmd), volumes without
\* a <id>.cmd skipped
list_containers(st) ==
    { <<v, Strip(st[v][CmdFile(v)])>> :
        v \in {w \in DOMAIN st : HasPrefix(w, S_ps) /\ CmdFile(w) \in DOMAIN st[w]} }

(* ------------------------- host directories --------------------------- *)
D_base == <<"/", "b">>
D_src == <<"/", "s">>
D_empty == <<"/", "e">>
D_none == <<"/", "x">>

\* the directories of the host that init is given, with their contents
HostDirs ==
    (D_base :> ((F_etc :> <<>>) @@ (F_sh :> <<"#">>)))
    @@ (D_src :> ((F_etc :> <<>>) @@ (F_sh :> <<"#">>) @@ (F_source :> <<"o", NL>>)))
    @@ (D_empty :> EmptyTree)

\* _directory_exists
directory_exists(d) == d \in DOMAIN HostDirs

\* exit status of a failing script line: ip reports a kernel error with 2,
\* btrfs, cp, a failed redirection and the cgroup tools end with 1
IpFail == 2
BtrfsFail == 1
ShFail == 1
CgFail == 1

(* ------------------------------- state -------------------------------- *)
VARIABLES
    store,      \* volume name -> (file name -> content)
    veth,       \* container id -> [up, master, peer]: the pair veth0_<id>/veth1_<id>
    netns,      \* container id -> configuration of netns_<id>
    cgroups,    \* cgroup name -> [shares, mem]
    run,        \* process -> the run invocation it executes
    ncmd        \* CLI invocations started so far

vars == <<store, veth, netns, cgroups, run, ncmd>>

\* r1 executes the runs, r2 the commands of one step
Procs == {"r1", "r2"}

\* the host: the store, the links, the namespaces and the cgroups
Host == [store |-> store, veth |-> veth, netns |-> netns, cgroups |-> cgroups]

\* a run invocation: its position in Bocker.run (pc), its arguments, the id it
\* generated, its exit status (rc), the host as it was when run was called
\* (pre), the script line that failed (at), what it acquired so far (acq), the
\* child (none, running, exited), the contexts the child entered (ctx),
\* whether the contained command started, what the child wrote (out) and the
\* exit status of the child
RunRec(pc, args, uuid, rc, pre) ==
    [pc |-> pc, args |-> args, uuid |-> uuid, rc |-> rc, pre |-> pre, at |-> "",
     acq |-> <<>>, child |-> "none", ctx |-> <<>>, started |-> FALSE, out |-> <<>>,
     status |-> 0]

IdleRun == RunRec("idle", <<>>, <<>>, 0, <<>>)

\* the process of the one-step commands
Stepper == "r2"

\* the record of a one-step command that has returned: the command (at), its
\* arguments, its exit status, what it printed on stdout and the host as it
\* was when the command was called
CmdRec(cmd, args, rc, out, pre) ==
    [RunRec("idle", args, <<>>, rc, pre) EXCEPT !.at = cmd, !.out = out]

Init ==
    /\ store = [v \in {} |-> EmptyTree]
    /\ veth = [v \in {} |-> 0]
    /\ netns = [v \in {} |-> 0]
    /\ cgroups = [v \in {} |-> 0]
    /\ run = [p \in Procs |-> IdleRun]
    /\ ncmd = 0

\* commands are serialized: a command starts when no run is in progress
NoRunActive == \A p \in Procs : run[p].pc \in {"idle", "returned"}

CanStart == ncmd < MaxCmds /\ NoRunActive

\* the exit statuses a command returns
ExitCodes == {0, 1, 2}

\* a command of one step returns the status code after printing out; rc is the
\* status it is observed to return; the record of an earlier command is gone
ReturnOut(cmd, args, code, rc, out) ==
    /\ rc = code
    /\ ncmd' = ncmd + 1
    /\ run' = [p \in Procs |-> IF p = Stepper THEN CmdRec(cmd, args, rc, out, Host) ELSE IdleRun]

\* a command of one step returns the status code, with nothing on stdout that
\* the model keeps
Return(cmd, args, code, rc) == ReturnOut(cmd, args, code, rc, <<>>)

\* the draws when a drawn id is used without the existence check
unchecked_ids(st, prefix) == RandRange

\* the draws that end the retry of init and run: uuid = _generate_uuid(prefix),
\* if _bocker_check(uuid) the command calls itself again; with no such draw
\* the calls nest until Python raises RecursionError, which main turns into 1
free_ids(st, prefix) == {n \in RandRange : ~bocker_check(st, generate_uuid(prefix, n))}

(* -------------------------------- init -------------------------------- *)
\* the tree of a new image volume after cp -rf "<dir>"/* and the img.source line
InitTree(dir) ==
    IF F_source \in DOMAIN HostDirs[dir] THEN HostDirs[dir]
    ELSE Put(HostDirs[dir], F_source, EchoLine(dir))

\* Bocker.init
InitCmd(args, rc) ==
    /\ CanStart
    /\ UNCHANGED <<veth, netns, cgroups>>
    /\ IF Len(args) < 1 \/ ~directory_exists(args[1])
       THEN /\ Return("init", args, 1, rc)
            /\ UNCHANGED store
       ELSE LET free == free_ids(store, S_img) IN
            IF free = {}
            THEN \* every draw collides: the recursion ends in RecursionError
                 /\ Return("init", args, 1, rc)
                 /\ UNCHANGED store
            ELSE \E n \in free :
                 LET uuid == generate_uuid(S_img, n) IN
                 \/ \* btrfs subvolume create fails
                    /\ Return("init", args, BtrfsFail, rc)
                    /\ UNCHANGED store
                 \/ \* cp fails: always on an empty directory, whose glob stays literal
                    /\ Return("init", args, ShFail, rc)
                    /\ store' = Put(store, uuid, EmptyTree)
                 \/ /\ HostDirs[args[1]] # EmptyTree
                    /\ Return("init", args, 0, rc)
                    /\ store' = Put(store, uuid, InitTree(args[1]))

(* --------------------------------- rm --------------------------------- *)
\* the cgroups when cgdelete is left out
cgkeep(cg, id) == cg

\* cgdelete -g "<cgroups>:/<id>" &> /dev/null || true
cgdelete(cg, id) == IF id \in DOMAIN cg THEN Drop(cg, id) ELSE cg

\* btrfs subvolume delete <store>/<id> has something to delete: every path
\* would do
any_path(st, id) == TRUE

\* btrfs subvolume delete <store>/<id> has something to delete: <store>/<id>
\* is a volume
is_volume(st, id) == id \in DOMAIN st

\* what rm writes to stderr: its own messages, or the one of the failed script
\* (_run_bash_command prints result.stderr)
rm_stderr(st, args, rc) ==
    IF Len(args) < 1 THEN "Usage: bocker rm <id>"
    ELSE IF ~bocker_check(st, args[1]) THEN "No container named '<id>' exists"
    ELSE IF rc # 0 THEN "ERROR: Could not statfs: No such file or directory"
    ELSE ""

\* Bocker.rm
RmCmd(args, rc) ==
    /\ CanStart
    /\ UNCHANGED <<veth, netns>>
    /\ IF Len(args) < 1 \/ ~bocker_check(store, args[1])
       THEN /\ Return("rm", args, 1, rc)
            /\ UNCHANGED <<store, cgroups>>
       ELSE LET id == args[1] IN
            \/ \* btrfs subvolume delete fails: always when <store>/<id> is no volume
               /\ Return("rm", args, BtrfsFail, rc)
               /\ UNCHANGED <<store, cgroups>>
            \/ /\ is_volume(store, id)
               /\ store' = Drop(store, id)
               /\ cgroups' = cgdelete(cgroups, id)
               /\ Return("rm", args, 0, rc)

(* ------------------------------- commit ------------------------------- *)
\* the store when the snapshot comes out as an empty volume
EmptySnapshot(st, src, dst) == Put(st, dst, EmptyTree)

\* btrfs subvolume snapshot <store>/<src> <store>/<dst>
Snapshot(st, src, dst) == Put(st, dst, st[src])

\* Bocker.commit
CommitCmd(args, rc) ==
    /\ CanStart
    /\ UNCHANGED <<veth, netns>>
    /\ IF \/ Len(args) < 2
          \/ ~bocker_check(store, args[1])
          \/ ~bocker_check(store, args[2])
       THEN /\ Return("commit", args, 1, rc)
            /\ UNCHANGED <<store, cgroups>>
       ELSE LET container_id == args[1]
                image_id == args[2]
                deleted == Drop(store, image_id) IN
            \/ \* btrfs subvolume delete fails
               /\ Return("commit", args, BtrfsFail, rc)
               /\ UNCHANGED <<store, cgroups>>
            \/ \* the image is deleted and the snapshot fails: always when
               \* <store>/<container_id> is no volume (any more)
               /\ image_id \in DOMAIN store
               /\ Return("commit", args, BtrfsFail, rc)
               /\ store' = deleted
               /\ cgroups' = cgdelete(cgroups, image_id)
            \/ /\ image_id \in DOMAIN store
               /\ container_id \in DOMAIN deleted
               /\ store' = Snapshot(deleted, container_id, image_id)
               /\ cgroups' = cgdelete(cgroups, image_id)
               /\ Return("commit", args, 0, rc)

(* ----------------------------- images, ps ----------------------------- *)
TabTab == <<"\t", "\t">>

\* python: sep.join(seq)
RECURSIVE JoinSep(_, _)
JoinSep(seq, sep) ==
    IF seq = <<>> THEN <<>>
    ELSE IF Len(seq) = 1 THEN seq[1]
    ELSE seq[1] \o sep \o JoinSep(Tail(seq), sep)

\* _format_table_output
format_table_output(headers, rows) ==
    IF rows = <<>> THEN JoinSep(headers, TabTab)
    ELSE JoinSep(<<JoinSep(headers, TabTab)>>
                    \o [i \in 1..Len(rows) |-> JoinSep(rows[i], TabTab)], <<NL>>)

\* python: print(s)
PrintLine(s) == s \o <<NL>>

\* the orders in which glob.glob may deliver the entries that give the rows
Orders(rows) ==
    {f \in [1..Cardinality(rows) -> rows] :
        \A i, j \in 1..Cardinality(rows) : f[i] = f[j] => i = j}

ImagesHeaders == <<<<"I", "M", "A", "G", "E", "_", "I", "D">>, <<"S", "O", "U", "R", "C", "E">>>>
PsHeaders ==
    << <<"C", "O", "N", "T", "A", "I", "N", "E", "R", "_", "I", "D">>,
       <<"C", "O", "M", "M", "A", "N", "D">> >>

\* Bocker.images
ImagesCmd(args, rc) ==
    /\ CanStart
    /\ UNCHANGED <<store, veth, netns, cgroups>>
    /\ \E rows \in Orders(list_images(store)) :
          ReturnOut("images", args, 0, rc,
                    IF rows = <<>> THEN PrintLine(JoinSep(ImagesHeaders, TabTab))
                    ELSE PrintLine(format_table_output(ImagesHeaders, rows)))

\* Bocker.ps
PsCmd(args, rc) ==
    /\ CanStart
    /\ UNCHANGED <<store, veth, netns, cgroups>>
    /\ \E rows \in Orders(list_containers(store)) :
          ReturnOut("ps", args, 0, rc,
                    IF rows = <<>> THEN PrintLine(JoinSep(PsHeaders, TabTab))
                    ELSE PrintLine(format_table_output(PsHeaders, rows)))

(* -------------------------------- logs -------------------------------- *)
CR == "\r"

\* python: open(file, 'r').read() - universal newlines: "\r\n" and "\r" are
\* read as "\n"
RECURSIVE ReadText(_)
ReadText(s) ==
    IF s = <<>> THEN <<>>
    ELSE IF Head(s) = CR
         THEN IF Len(s) > 1 /\ s[2] = NL
              THEN <<NL>> \o ReadText(Tail(Tail(s)))
              ELSE <<NL>> \o ReadText(Tail(s))
         ELSE <<Head(s)>> \o ReadText(Tail(s))

\* Path(<store>) / id / "<id>.log" exists
log_file_exists(st, id) == id \in DOMAIN st /\ LogFile(id) \in DOMAIN st[id]

\* Bocker.logs: its exit status and what it prints on stdout
logs(st, args) ==
    IF Len(args) < 1 THEN [rc |-> 1, out |-> <<>>]
    ELSE IF ~bocker_check(st, args[1]) THEN [rc |-> 1, out |-> <<>>]
    ELSE IF ~log_file_exists(st, args[1]) THEN [rc |-> 1, out |-> <<>>]
    ELSE [rc |-> 0, out |-> ReadText(st[args[1]][LogFile(args[1])])]

\* Bocker.logs, called while no run is in progress
LogsCmd(args, rc) ==
    /\ CanStart
    /\ UNCHANGED <<store, veth, netns, cgroups>>
    /\ ReturnOut("logs", args, logs(store, args).rc, rc, logs(store, args).out)

(* -------------------------------- pull -------------------------------- *)
\* the members of the layer tar of the archive <name>_<tag>.tar.gz
PullTree == (F_etc :> <<>>) @@ (F_sh :> <<"#">>)

\* the files of the archive beside the layer members
F_manifest == <<"manifest.json">>
F_layer == <<"l.tar">>
F_layer2 == <<"m.tar">>

\* the members of a layer tar: l.tar holds the base tree, m.tar another /bin/sh
LayerMembers(layer) == IF layer = F_layer2 THEN (F_sh :> <<"!">>) ELSE PullTree

\* what the server delivers for <name>_<tag>.tar.gz: no answer, a file that is
\* no gzipped tar, a tar without manifest.json, a tar whose manifest lists the
\* layer l.tar that the tar does not hold, a tar with manifest and layer, a tar
\* with the layers l.tar and m.tar, the same with l.tar listed again on top
Archives == {"error", "corrupt", "no_manifest", "missing_layer", "ok", "two_layers",
             "repeated_layer"}

\* extract_path after tar.extractall
Extracted(archive) ==
    CASE archive = "no_manifest" -> (F_layer :> <<"tar">>)
      [] archive = "missing_layer" -> (F_manifest :> <<"json">>)
      [] archive = "ok" -> (F_manifest :> <<"json">>) @@ (F_layer :> <<"tar">>)
      [] archive \in {"two_layers", "repeated_layer"} ->
           (F_manifest :> <<"json">>) @@ (F_layer :> <<"tar">>) @@ (F_layer2 :> <<"tar">>)
      [] OTHER -> EmptyTree

\* the Layers of the entries of json.load(manifest.json), base first
ManifestLayers(archive) ==
    CASE archive = "two_layers" -> <<F_layer, F_layer2>>
      [] archive = "repeated_layer" -> <<F_layer, F_layer2, F_layer>>
      [] OTHER -> <<F_layer>>

\* os.path.exists(layer_path)
layer_exists(tree, layer) == layer \in DOMAIN tree

RECURSIVE ApplyLayers(_, _)
\* process_path after the loop over the layers: a layer that exists is
\* extracted over process_path and removed, a layer that does not is skipped
ApplyLayers(tree, layers) ==
    IF layers = <<>> THEN tree
    ELSE IF layer_exists(tree, Head(layers))
         THEN ApplyLayers(LayerMembers(Head(layers)) @@ Drop(tree, Head(layers)),
                          Tail(layers))
         ELSE ApplyLayers(tree, Tail(layers))

\* process_path when the script starts
ProcessTree(archive) == ApplyLayers(Extracted(archive), ManifestLayers(archive))

\* what requests.get / the extraction deliver
Fetches == {"error", "no_manifest", "ok"}

\* Bocker.pull
PullCmd(args, r2_domain, fetch, rc) ==
    /\ CanStart
    /\ UNCHANGED <<veth, netns, cgroups>>
    /\ IF Len(args) < 2 \/ ~r2_domain \/ fetch # "ok"
       THEN /\ Return("pull", args, 1, rc)
            /\ UNCHANGED store
       ELSE \E n \in RandRange :
            LET img_uuid == generate_uuid(S_img, n) IN
            \/ \* btrfs subvolume create fails: always when the id is taken
               /\ Return("pull", args, BtrfsFail, rc)
               /\ UNCHANGED store
            \/ \* cp fails
               /\ img_uuid \notin DOMAIN store
               /\ Return("pull", args, ShFail, rc)
               /\ store' = Put(store, img_uuid, EmptyTree)
            \/ /\ img_uuid \notin DOMAIN store
               /\ store' = Put(store, img_uuid,
                               Put(ProcessTree("ok"), F_source,
                                   EchoLine(args[1] \o <<":">> \o args[2])))
               /\ Return("pull", args, 0, rc)

(* -------------------------- pull, step by step -------------------------- *)
\* temp_base: not there (before mkdtemp, after rmtree)
NoScratch == <<>>

\* temp_base after mkdtemp, and after the three os.makedirs
ScratchBase == [base |-> EmptyTree]
ScratchDirs == [base |-> EmptyTree, download |-> EmptyTree, extract |-> EmptyTree,
                process |-> EmptyTree]

\* a pull invocation: a run record whose command (at) is pull, with the archive
\* the server holds and the scratch directory (tmp)
PullRec(pc, args, archive, rc, pre) ==
    [RunRec(pc, args, <<>>, rc, pre) EXCEPT !.at = "pull"]
    @@ [archive |-> archive, tmp |-> NoScratch]

\* pull up to mkdtemp: the argument count and R2_DOMAIN
PullEntry(p, args, r2_domain, archive) ==
    /\ CanStart
    /\ ncmd' = ncmd + 1
    /\ UNCHANGED <<store, veth, netns, cgroups>>
    /\ IF Len(args) < 2 \/ ~r2_domain
       THEN run' = [q \in Procs |-> IF q = p THEN PullRec("returned", args, archive, 1, Host)
                                     ELSE IdleRun]
       ELSE run' = [q \in Procs |->
                      IF q = p
                      THEN [PullRec("pull_makedirs", args, archive, 0, Host)
                              EXCEPT !.tmp = ScratchBase]
                      ELSE IdleRun]

\* an exception outside the try block ends pull and reaches main, which returns 1
PullRaise(p) ==
    /\ run' = [run EXCEPT ![p].pc = "returned", ![p].rc = 1]
    /\ UNCHANGED <<store, veth, netns, cgroups, ncmd>>

\* inside the try block: return c, or an exception caught (c = 1); the finally
\* clause is next
PullLeave(p, c) ==
    /\ run' = [run EXCEPT ![p].pc = "pull_finally", ![p].rc = c]
    /\ UNCHANGED <<veth, netns, cgroups, ncmd>>

\* for path in [download_path, extract_path, process_path]: os.makedirs(path)
PullMakedirs(p) ==
    /\ run[p].pc = "pull_makedirs"
    /\ \/ /\ run' = [run EXCEPT ![p].pc = "pull_get", ![p].tmp = ScratchDirs,
                                ![p].acq = Append(@, "scratch")]
          /\ UNCHANGED <<store, veth, netns, cgroups, ncmd>>
       \/ PullRaise(p)

\* <name>_<tag>.tar.gz
ArchiveFile(args) == args[1] \o <<"_">> \o args[2] \o <<".", "t", "a", "r", ".", "g", "z">>

\* requests.get, raise_for_status and the chunks written to the file
PullGet(p) ==
    /\ run[p].pc = "pull_get"
    /\ UNCHANGED store
    /\ IF run[p].archive = "error"
       THEN PullLeave(p, 1)
       ELSE \/ /\ run' = [run EXCEPT ![p].pc = "pull_extract",
                                     ![p].tmp.download = (ArchiveFile(run[p].args) :> <<"gz">>)]
               /\ UNCHANGED <<veth, netns, cgroups, ncmd>>
            \/ \* the connection breaks, the disk is full
               PullLeave(p, 1)

\* tarfile.open(compressed_filename, "r:gz") and tar.extractall
PullExtract(p) ==
    /\ run[p].pc = "pull_extract"
    /\ UNCHANGED store
    /\ IF run[p].archive = "corrupt"
       THEN PullLeave(p, 1)
       ELSE /\ run' = [run EXCEPT ![p].pc = "pull_manifest",
                                  ![p].tmp.extract = Extracted(run[p].archive)]
            /\ UNCHANGED <<veth, netns, cgroups, ncmd>>

\* a manifest.json found wherever it is looked for
any_manifest(tree) == TRUE

\* os.walk(extract_path): 'manifest.json' in files
find_manifest(tree) == F_manifest \in DOMAIN tree

\* the search for manifest.json, json.load and the copy of the items beside
\* the manifest into process_path
PullManifest(p) ==
    /\ run[p].pc = "pull_manifest"
    /\ UNCHANGED store
    /\ IF ~find_manifest(run[p].tmp.extract)
       THEN PullLeave(p, 1)
       ELSE /\ run' = [run EXCEPT ![p].pc = "pull_layers",
                                  ![p].tmp.process = run[p].tmp.extract]
            /\ UNCHANGED <<veth, netns, cgroups, ncmd>>

\* the loop over the layers of the manifest, then img_uuid = _generate_uuid("img_")
PullLayers(p) ==
    /\ run[p].pc = "pull_layers"
    /\ UNCHANGED <<store, veth, netns, cgroups, ncmd>>
    /\ \E n \in RandRange :
         run' = [run EXCEPT ![p].pc = "pull_create",
                            ![p].uuid = generate_uuid(S_img, n),
                            ![p].tmp.process =
                                ApplyLayers(@, ManifestLayers(run[p].archive))]

\* btrfs subvolume create <store>/<img_uuid>
PullCreate(p) ==
    /\ run[p].pc = "pull_create"
    /\ \/ /\ run[p].uuid \notin DOMAIN store
          /\ store' = Put(store, run[p].uuid, EmptyTree)
          /\ run' = [run EXCEPT ![p].pc = "pull_cp"]
          /\ UNCHANGED <<veth, netns, cgroups, ncmd>>
       \/ \* always when <store>/<img_uuid> is there
          PullLeave(p, BtrfsFail) /\ UNCHANGED store

\* cp -rf --reflink=auto "<process_path>"/* <store>/<img_uuid>/
PullCp(p) ==
    /\ run[p].pc = "pull_cp"
    /\ \/ /\ run[p].tmp.process # EmptyTree
          /\ store' = [store EXCEPT ![run[p].uuid] = run[p].tmp.process @@ @]
          /\ run' = [run EXCEPT ![p].pc = "pull_source"]
          /\ UNCHANGED <<veth, netns, cgroups, ncmd>>
       \/ PullLeave(p, ShFail) /\ UNCHANGED store

\* echo "<name>:<tag>" > <store>/<img_uuid>/img.source ; echo "Created: ..."
PullSource(p) ==
    /\ run[p].pc = "pull_source"
    /\ store' = [store EXCEPT ![run[p].uuid] =
                    Put(@, F_source, EchoLine(run[p].args[1] \o <<":">> \o run[p].args[2]))]
    /\ PullLeave(p, 0)

\* temp_base left as it is
keeptree(tmp) == tmp

\* shutil.rmtree(temp_base)
rmtree(tmp) == NoScratch

\* finally: if os.path.exists(temp_base): shutil.rmtree(temp_base)
PullFinally(p) ==
    /\ run[p].pc = "pull_finally"
    /\ run' = [run EXCEPT ![p].pc = "returned", ![p].tmp = rmtree(@)]
    /\ UNCHANGED <<store, veth, netns, cgroups, ncmd>>

(* -------------------------------- run --------------------------------- *)
\* python: s[-k:]
LastChars(s, k) == SubSeq(s, Len(s) - k + 1, Len(s))

\* the ip suffix when only the last two characters of the id are taken
short_suffix(uuid) == RemoveChar(LastChars(uuid, 2), "0")

\* ip_suffix = uuid[-3:].replace('0', '') or '1'
ip_suffix(uuid) ==
    LET t == RemoveChar(LastChars(uuid, 3), "0") IN IF t = <<>> THEN <<"1">> ELSE t

\* the mac suffix when only the last two characters of the id are taken
short_mac_suffix(uuid) == <<":">> \o LastChars(uuid, 2)

\* mac_suffix = f"{uuid[-3:-2]}:{uuid[-2:]}"
mac_suffix(uuid) ==
    SubSeq(uuid, Len(uuid) - 2, Len(uuid) - 2) \o <<":">> \o LastChars(uuid, 2)

\* the contexts the child chain enters, outermost first:
\* cgexec, ip netns exec, unshare -fmuip --mount-proc, chroot, /bin/sh -c, mount proc
ChildChain == <<"cgroup", "netns", "unshare", "chroot", "sh", "proc">>

\* the status of  <pipeline>  alone, without || true
PipelineStatus(status) == status

\* the status of  <pipeline> || true
OrTrue(status) == 0

\* image_id = args[0]; command = ' '.join(args[1:])
ImageId(r) == r.args[1]
Command(r) == Join(Tail(r.args))

\* run returns rc without having run its script
RunRefuse(p, args, rc) ==
    /\ run' = [q \in Procs |-> IF q = p THEN RunRec("returned", args, <<>>, rc, Host)
                                ELSE IdleRun]
    /\ ncmd' = ncmd + 1
    /\ UNCHANGED <<store, veth, netns, cgroups>>

\* Bocker.run up to the script: argument checks and the container id
RunEntry(p, args) ==
    /\ CanStart
    /\ IF Len(args) < 2
       THEN RunRefuse(p, args, 1)
       ELSE LET image_id == args[1]
                command == Join(Tail(args))
                free == free_ids(store, S_ps) IN
            IF ~bocker_check(store, image_id) \/ Strip(command) = <<>> \/ free = {}
            THEN RunRefuse(p, args, 1)
            ELSE \E n \in free :
                 /\ run' = [q \in Procs |->
                              IF q = p THEN RunRec("veth_add", args, generate_uuid(S_ps, n), 0, Host)
                              ELSE IdleRun]
                 /\ ncmd' = ncmd + 1
                 /\ UNCHANGED <<store, veth, netns, cgroups>>

\* errexit: a script line fails, the script ends there and run returns its status
Errexit(p, c) ==
    /\ run' = [run EXCEPT ![p].pc = "returned", ![p].rc = c, ![p].at = run[p].pc]
    /\ UNCHANGED <<store, veth, netns, cgroups, ncmd>>

\* the script lines that acquire a resource of the container, and the resource
Acquires ==
    ("veth_add" :> "network") @@ ("snapshot" :> "snapshot") @@ ("resolv" :> "resolv")
    @@ ("cmd" :> "cmd") @@ ("cgcreate" :> "cgroup") @@ ("pipeline" :> "child")

\* the script line at hand succeeded: on to the next one
Goto(p, next) ==
    /\ run' = [run EXCEPT ![p].pc = next,
                          ![p].acq = IF run[p].pc \in DOMAIN Acquires
                                     THEN Append(@, Acquires[run[p].pc]) ELSE @,
                          ![p].child = IF next = "child" THEN "running" ELSE @]
    /\ UNCHANGED ncmd

\* ip link add dev veth0_<uuid> type veth peer name veth1_<uuid>
RunVethAdd(p) ==
    /\ run[p].pc = "veth_add"
    /\ LET u == run[p].uuid IN
       \/ /\ u \notin DOMAIN veth
          /\ veth' = Put(veth, u, [up |-> FALSE, master |-> "", peer |-> "host"])
          /\ Goto(p, "veth_up")
          /\ UNCHANGED <<store, netns, cgroups>>
       \/ Errexit(p, IpFail)

\* ip link set dev veth0_<uuid> up
RunVethUp(p) ==
    /\ run[p].pc = "veth_up"
    /\ LET u == run[p].uuid IN
       \/ /\ u \in DOMAIN veth
          /\ veth' = [veth EXCEPT ![u].up = TRUE]
          /\ Goto(p, "veth_master")
          /\ UNCHANGED <<store, netns, cgroups>>
       \/ Errexit(p, IpFail)

\* ip link set veth0_<uuid> master bridge0
RunVethMaster(p) ==
    /\ run[p].pc = "veth_master"
    /\ LET u == run[p].uuid IN
       \/ /\ u \in DOMAIN veth
          /\ veth' = [veth EXCEPT ![u].master = "bridge0"]
          /\ Goto(p, "netns_add")
          /\ UNCHANGED <<store, netns, cgroups>>
       \/ Errexit(p, IpFail)

\* ip netns add netns_<uuid>
RunNetnsAdd(p) ==
    /\ run[p].pc = "netns_add"
    /\ LET u == run[p].uuid IN
       \/ /\ u \notin DOMAIN netns
          /\ netns' = Put(netns, u, [lo |-> FALSE, mac |-> <<>>, addr |-> <<>>,
                                     up |-> FALSE, route |-> FALSE])
          /\ Goto(p, "veth_move")
          /\ UNCHANGED <<store, veth, cgroups>>
       \/ Errexit(p, IpFail)

\* ip link set veth1_<uuid> netns netns_<uuid>
RunVethMove(p) ==
    /\ run[p].pc = "veth_move"
    /\ LET u == run[p].uuid IN
       \/ /\ u \in DOMAIN veth /\ veth[u].peer = "host" /\ u \in DOMAIN netns
          /\ veth' = [veth EXCEPT ![u].peer = "netns"]
          /\ Goto(p, "ns_config")
          /\ UNCHANGED <<store, netns, cgroups>>
       \/ Errexit(p, IpFail)

\* the five ip netns exec netns_<uuid> lines: lo up, the MAC address of
\* veth1_<uuid>, its IP address, veth1_<uuid> up, the default route; the line
\* that comes next is the first setting not made yet
RunNsConfig(p) ==
    /\ run[p].pc = "ns_config"
    /\ LET u == run[p].uuid IN
       \/ /\ u \in DOMAIN netns /\ u \in DOMAIN veth /\ veth[u].peer = "netns"
          /\ LET ns == netns[u] IN
             IF ~ns.lo THEN netns' = [netns EXCEPT ![u].lo = TRUE] /\ Goto(p, "ns_config")
             ELSE IF ns.mac = <<>>
             THEN /\ netns' = [netns EXCEPT ![u].mac =
                        <<"02:42:ac:11:00">> \o mac_suffix(u)]
                  /\ Goto(p, "ns_config")
             ELSE IF ns.addr = <<>>
             THEN /\ netns' = [netns EXCEPT ![u].addr = <<"10.0.0.">> \o ip_suffix(u)]
                  /\ Goto(p, "ns_config")
             ELSE IF ~ns.up THEN netns' = [netns EXCEPT ![u].up = TRUE] /\ Goto(p, "ns_config")
             ELSE netns' = [netns EXCEPT ![u].route = TRUE] /\ Goto(p, "snapshot")
          /\ UNCHANGED <<store, veth, cgroups>>
       \/ Errexit(p, IpFail)

\* btrfs subvolume snapshot <src> <dst> with <dst> an existing directory: the
\* snapshot is made inside it, under the name of the source
SnapshotInto(st, src, dst) == [st EXCEPT ![dst] = Put(@, src, <<>>)]

\* btrfs subvolume snapshot <store>/<image_id> <store>/<uuid>
RunSnapshot(p) ==
    /\ run[p].pc = "snapshot"
    /\ LET u == run[p].uuid IN
       \/ /\ ImageId(run[p]) \in DOMAIN store /\ u \notin DOMAIN store
          /\ store' = Snapshot(store, ImageId(run[p]), u)
          /\ Goto(p, "resolv")
          /\ UNCHANGED <<veth, netns, cgroups>>
       \/ \* <store>/<uuid> is there already: the volume of another run
          /\ ImageId(run[p]) \in DOMAIN store /\ u \in DOMAIN store
          /\ ImageId(run[p]) \notin DOMAIN store[u]
          /\ store' = SnapshotInto(store, ImageId(run[p]), u)
          /\ Goto(p, "resolv")
          /\ UNCHANGED <<veth, netns, cgroups>>
       \/ Errexit(p, BtrfsFail)

\* echo 'nameserver 8.8.8.8' > <store>/<uuid>/etc/resolv.conf
RunResolv(p) ==
    /\ run[p].pc = "resolv"
    /\ LET u == run[p].uuid IN
       \/ /\ u \in DOMAIN store /\ F_etc \in DOMAIN store[u]
          /\ store' = [store EXCEPT ![u] = Put(@, F_resolv, <<"nameserver 8.8.8.8", NL>>)]
          /\ Goto(p, "cmd")
          /\ UNCHANGED <<veth, netns, cgroups>>
       \/ Errexit(p, ShFail)

\* echo "<command>" > <store>/<uuid>/<uuid>.cmd
RunCmdFile(p) ==
    /\ run[p].pc = "cmd"
    /\ LET u == run[p].uuid IN
       \/ /\ u \in DOMAIN store
          /\ store' = [store EXCEPT ![u] = Put(@, CmdFile(u), EchoLine(Command(run[p])))]
          /\ Goto(p, "cgcreate")
          /\ UNCHANGED <<veth, netns, cgroups>>
       \/ Errexit(p, ShFail)

\* cgcreate -g "<cgroups>:/<uuid>"
RunCgcreate(p) ==
    /\ run[p].pc = "cgcreate"
    /\ LET u == run[p].uuid IN
       \/ /\ cgroups' = IF u \in DOMAIN cgroups THEN cgroups
                        ELSE Put(cgroups, u, [shares |-> 0, mem |-> 0])
          /\ Goto(p, "cgset_cpu")
          /\ UNCHANGED <<store, veth, netns>>
       \/ Errexit(p, CgFail)

\* cgset -r cpu.shares=<cpu_share> <uuid>
RunCgsetCpu(p) ==
    /\ run[p].pc = "cgset_cpu"
    /\ LET u == run[p].uuid IN
       \/ /\ u \in DOMAIN cgroups
          /\ cgroups' = [cgroups EXCEPT ![u].shares = CpuShare]
          /\ Goto(p, "cgset_mem")
          /\ UNCHANGED <<store, veth, netns>>
       \/ Errexit(p, CgFail)

\* cgset -r memory.limit_in_bytes=<mem_limit * 1000000> <uuid>
RunCgsetMem(p) ==
    /\ run[p].pc = "cgset_mem"
    /\ LET u == run[p].uuid IN
       \/ /\ u \in DOMAIN cgroups
          /\ cgroups' = [cgroups EXCEPT ![u].mem = MemLimit * 1000000]
          /\ Goto(p, "pipeline")
          /\ UNCHANGED <<store, veth, netns>>
       \/ Errexit(p, CgFail)

\* the file <uuid>.log with one more line, when the volume is there for tee
Tee(st, u, line) ==
    IF u \in DOMAIN st /\ LogFile(u) \in DOMAIN st[u]
    THEN [st EXCEPT ![u] = Put(@, LogFile(u), @[LogFile(u)] \o <<line>>)]
    ELSE st

\* the pipeline starts: tee creates (or truncates) <uuid>.log
RunPipeline(p) ==
    /\ run[p].pc = "pipeline"
    /\ LET u == run[p].uuid IN
          store' = IF u \in DOMAIN store
                   THEN [store EXCEPT ![u] = Put(@, LogFile(u), <<>>)] ELSE store
    /\ Goto(p, "child")
    /\ UNCHANGED <<veth, netns, cgroups>>

\* what the next context of the chain needs in order to be entered
CanEnter(p, c) ==
    LET u == run[p].uuid IN
    CASE c = "cgroup" -> u \in DOMAIN cgroups
      [] c = "netns" -> u \in DOMAIN netns
      [] c = "chroot" -> u \in DOMAIN store
      [] c = "sh" -> u \in DOMAIN store /\ F_sh \in DOMAIN store[u]
      [] OTHER -> TRUE

\* the child after it has entered every context of the chain: /bin/sh -c
\* "/bin/mount -t proc proc /proc && <command>" runs the command
AfterChain(r) == [r EXCEPT !.pc = "command", !.started = TRUE]

\* the lists of a shell command line: what stands between its ";"
RECURSIVE ShLists(_)
ShLists(s) ==
    IF \A i \in 1..Len(s) : s[i] # ";" THEN <<s>>
    ELSE LET k == CHOOSE i \in 1..Len(s) : s[i] = ";" /\ \A j \in 1..(i - 1) : s[j] # ";" IN
         <<SubSeq(s, 1, k - 1)>> \o ShLists(SubSeq(s, k + 1, Len(s)))

\* /bin/sh -c "/bin/mount -t proc proc /proc && <command>" with the mount
\* failed: && skips the first list of the command, and the shell goes on with
\* the lists after its first ";"
RunsAfterFailedMount(command) ==
    \E i \in 2..Len(ShLists(command)) : Strip(ShLists(command)[i]) # <<>>

\* the chain cgexec | ip netns exec | unshare | chroot | /bin/sh -c "mount && ..."
\* enters its next context, or that step fails: its message goes to the log
\* (2>&1) and the child ends with a non-zero status
RunChildEnter(p) ==
    /\ run[p].pc = "child"
    /\ LET u == run[p].uuid
           c == ChildChain[Len(run[p].ctx) + 1] IN
       \/ /\ CanEnter(p, c)
          /\ LET r == [run[p] EXCEPT !.ctx = Append(@, c)] IN
             run' = [run EXCEPT ![p] = IF Len(r.ctx) = Len(ChildChain) THEN AfterChain(r) ELSE r]
          /\ UNCHANGED store
       \/ /\ run' = IF c = "proc" /\ RunsAfterFailedMount(Command(run[p]))
                    THEN [run EXCEPT ![p].pc = "command", ![p].started = TRUE,
                                     ![p].out = Append(@, "E")]
                    ELSE [run EXCEPT ![p].pc = "exited", ![p].child = "exited",
                                     ![p].status = 1, ![p].out = Append(@, "E")]
          /\ store' = Tee(store, u, "E")
    /\ UNCHANGED <<veth, netns, cgroups, ncmd>>

\* the k-th character the contained command writes: it rewrites a progress
\* line, a carriage return and a letter in turn
OutChar(k) == IF k % 2 = 1 THEN CR ELSE "o"

\* the contained command writes a character to stdout or stderr; tee appends it
RunChildOutput(p) ==
    /\ run[p].pc = "command"
    /\ Len(run[p].out) < MaxOut
    /\ LET ch == OutChar(Len(run[p].out) + 1) IN
          /\ run' = [run EXCEPT ![p].out = Append(@, ch)]
          /\ store' = Tee(store, run[p].uuid, ch)
    /\ UNCHANGED <<veth, netns, cgroups, ncmd>>

\* the contained command creates a file in its root, the container volume
RunChildWrite(p) ==
    /\ run[p].pc = "command"
    /\ LET u == run[p].uuid IN
       /\ u \in DOMAIN store
       /\ F_data \notin DOMAIN store[u]
       /\ store' = [store EXCEPT ![u] = Put(@, F_data, <<"d">>)]
    /\ UNCHANGED <<veth, netns, cgroups, run, ncmd>>

\* the contained command ends, with any exit status
RunChildExit(p) ==
    /\ run[p].pc = "command"
    /\ \E s \in {0, 1} :
          run' = [run EXCEPT ![p].pc = "exited", ![p].child = "exited", ![p].status = s]
    /\ UNCHANGED <<store, veth, netns, cgroups, ncmd>>

\* the pipeline has ended:  ... | tee <log> || true
RunPipelineEnd(p) ==
    /\ run[p].pc = "exited"
    /\ IF OrTrue(run[p].status) = 0
       THEN Goto(p, "link_del") /\ UNCHANGED <<store, veth, netns, cgroups>>
       ELSE Errexit(p, OrTrue(run[p].status))

\* ip link del dev veth0_<uuid>: the peer goes with it; fails when it is missing
RunLinkDel(p) ==
    /\ run[p].pc = "link_del"
    /\ LET u == run[p].uuid IN
       IF u \in DOMAIN veth
       THEN /\ veth' = Drop(veth, u)
            /\ Goto(p, "netns_del")
            /\ UNCHANGED <<store, netns, cgroups>>
       ELSE Errexit(p, IpFail)

\* ip netns del netns_<uuid>, the last line of the script: run returns its status
RunNetnsDel(p) ==
    /\ run[p].pc = "netns_del"
    /\ LET u == run[p].uuid IN
       IF u \in DOMAIN netns
       THEN /\ netns' = Drop(netns, u)
            /\ run' = [run EXCEPT ![p].pc = "returned", ![p].rc = 0]
            /\ UNCHANGED <<store, veth, cgroups, ncmd>>
       ELSE Errexit(p, IpFail)

(* ---------------- commands called while a run is in progress ----------- *)
\* a command of one step, called from another terminal, returns: the run in
\* progress goes on, the record of the command replaces the one before it and
\* keeps no host, which goes on changing under the run
Observe(cmd, args, code, rc, out) ==
    /\ rc = code
    /\ run' = [run EXCEPT ![Stepper] = CmdRec(cmd, args, rc, out, <<>>)]
    /\ UNCHANGED ncmd

\* Bocker.logs, called at any time
LogsConc(args, rc) ==
    /\ UNCHANGED <<store, veth, netns, cgroups>>
    /\ Observe("logs", args, logs(store, args).rc, rc, logs(store, args).out)

\* what follows "unshare" in the command line of the unshare process of a run
UnshareArgs(r) ==
    <<" ", "-", "f", "m", "u", "i", "p", " ", "-", "-", "m", "o", "u", "n",
      "t", "-", "p", "r", "o", "c", " ", "c", "h", "r", "o", "o", "t", " ",
      "/", "v", "a", "r", "/", "b", "o", "c", "k", "e", "r", "/">>
    \o r.uuid \o
    <<" ", "/", "b", "i", "n", "/", "s", "h", " ", "-", "c", " ", "/", "b",
      "i", "n", "/", "m", "o", "u", "n", "t", " ", "-", "t", " ", "p", "r",
      "o", "c", " ", "p", "r", "o", "c", " ", "/", "p", "r", "o", "c", " ",
      "&", "&", " ">>
    \o Command(r)

\* the unshare process of a run and its child, the contained shell, are alive
UnshareAlive(r) ==
    r.child = "running" /\ \E i \in 1..Len(r.ctx) : r.ctx[i] = "unshare"

\* chroot cannot change to its directory
ChrootFail == 125

\* Bocker.exec.  grep -E "^\ *[0-9]+ unshare.*<id>" picks
\* the unshare processes whose command line holds the id; nsenter enters the
\* namespaces of the child of the one it found and chroot <store>/<id> runs
\* the command, which creates a file and ends with any status: the exit
\* status, the output and the store of every way exec can end
exec_outcomes(st, rn, args) ==
    IF Len(args) < 2 \/ ~bocker_check(st, args[1])
    THEN {[code |-> 1, out |-> <<>>, store |-> st]}
    ELSE LET container_id == args[1]
             found == {p \in Procs : /\ UnshareAlive(rn[p])
                                     /\ IsSubstr(container_id, UnshareArgs(rn[p]))} IN
         \* cid is no number: no process found, or ps pads the PPID column
         \* and grep "^<pid>" finds no line
         {[code |-> 1, out |-> <<>>, store |-> st]}
         \cup {[code |-> ChrootFail, out |-> <<>>, store |-> st] :
                  x \in {y \in {1} : found # {} /\ container_id \notin DOMAIN st}}
         \cup {[code |-> status, out |-> Join(Tail(args)),
                store |-> [st EXCEPT ![container_id] = Put(@, F_data, <<"d">>)]] :
                  status \in {n \in {0, 1} : found # {} /\ container_id \in DOMAIN st}}

\* what exec has written to stderr when it returns rc: its own two messages go
\* to sys.stderr; the script runs with stderr=subprocess.STDOUT, so the echo
\* of "exists but is not running" and every message of nsenter, chroot and
\* the command arrive on the one pipe that print() copies to stdout
exec_stderr(st, args, rc) ==
    IF Len(args) < 2 THEN "Usage: bocker exec <container_id> <command>"
    ELSE IF ~bocker_check(st, args[1]) THEN "No container named '<id>' exists"
    ELSE ""

\* Bocker.exec, called while a run is in progress
ExecConc(args, rc) ==
    /\ UNCHANGED <<veth, netns, cgroups>>
    /\ \E r \in exec_outcomes(store, run, args) :
         Observe("exec", args, r.code, rc, r.out) /\ store' = r.store

\* Bocker.exec, called while no run is in progress
ExecCmd(args, rc) ==
    /\ CanStart
    /\ UNCHANGED <<veth, netns, cgroups>>
    /\ \E r \in exec_outcomes(store, run, args) :
         ReturnOut("exec", args, r.code, rc, r.out) /\ store' = r.store

(* ------------------------------- inputs ------------------------------- *)
Id_img1 == generate_uuid(S_img, UuidLo)
Id_ps1 == generate_uuid(S_ps, UuidLo)
\* an id that is in no line of the listing
Id_none == <<"x">>
\* the empty string
Id_empty == <<>>

\* the command lines given to run after the image id
Commands == { <<<<"a">>, <<";">>, <<"b", " ">>>>, <<<<" ">>>> }

InitArgs == {<<D_base>>, <<D_src>>, <<D_empty>>, <<D_none>>}

\* image ids given to run: an image, a fragment of every image name, no volume
RunImages == {Id_img1, S_img, Id_none}

RunArgs ==
    {<<Id_img1>> \o c : c \in Commands}
    \cup {<<i, <<"a">>>> : i \in RunImages \ {Id_img1}} \cup {<<Id_img1>>}

RmArgs == {<<Id_img1>>, <<Id_ps1>>, <<Id_none>>, <<S_img>>, <<Id_empty>>}

CommitArgs ==
    {<<Id_ps1, Id_img1>>, <<Id_img1, Id_ps1>>, <<Id_ps1, Id_ps1>>,
     <<Id_none, Id_img1>>, <<S_img, Id_img1>>}

ListArgs == {<<>>}

\* ids given to logs: a container, a fragment of every container name, no volume
LogsArgs == {<<Id_ps1>>, <<S_ps>>, <<Id_none>>}

PullArgs == {<<<<"c">>, <<"7">>>>, <<<<"c">>>>}

\* the process that executes run while the commands are serialized
Runner == "r1"

Next ==
    \/ \E a \in InitArgs, rc \in ExitCodes : InitCmd(a, rc)
    \/ \E a \in PullArgs, d \in BOOLEAN, f \in Fetches, rc \in ExitCodes : PullCmd(a, d, f, rc)
    \/ \E a \in RmArgs, rc \in ExitCodes : RmCmd(a, rc)
    \/ \E a \in CommitArgs, rc \in ExitCodes : CommitCmd(a, rc)
    \/ \E a \in RunArgs : RunEntry(Runner, a)
    \/ RunVethAdd(Runner)
    \/ RunVethUp(Runner)
    \/ RunVethMaster(Runner)
    \/ RunNetnsAdd(Runner)
    \/ RunVethMove(Runner)
    \/ RunNsConfig(Runner)
    \/ RunSnapshot(Runner)
    \/ RunResolv(Runner)
    \/ RunCmdFile(Runner)
    \/ RunCgcreate(Runner)
    \/ RunCgsetCpu(Runner)
    \/ RunCgsetMem(Runner)
    \/ RunPipeline(Runner)
    \/ RunChildEnter(Runner)
    \/ RunChildOutput(Runner)
    \/ RunChildWrite(Runner)
    \/ RunChildExit(Runner)
    \/ RunPipelineEnd(Runner)
    \/ RunLinkDel(Runner)
    \/ RunNetnsDel(Runner)

Spec == Init /\ [][Next]_vars

\* the second id random.randint may draw
Id_ps2 == generate_uuid(S_ps, UuidLo + 1)

\* the tree of a container of the image tree after its run has ended: line 338,
\* line 339 and the log that tee wrote
StoppedTree(tree, id, command, log) ==
    Put(Put(Put(tree, F_resolv, <<"nameserver 8.8.8.8", NL>>),
            CmdFile(id), EchoLine(command)),
        LogFile(id), log)

\* the command of the runs that have ended before InitConc
EarlierCommand == Join(<<<<"a">>, <<";">>, <<"b", " ">>>>)

\* the image after init /b, run img_42002 a ';' 'b ' (which drew ps_42002 and
\* wrote a carriage return) and commit ps_42002 img_42002
CommittedTree == StoppedTree(InitTree(D_base), Id_ps1, EarlierCommand, <<CR>>)

\* the host after the commands above, rm ps_42002 and a second run of the
\* image, which drew ps_42003 and has ended: a committed image and a stopped
\* container
InitConc ==
    /\ store = (Id_img1 :> CommittedTree)
               @@ (Id_ps2 :> StoppedTree(CommittedTree, Id_ps2, EarlierCommand, <<CR>>))
    /\ veth = [v \in {} |-> 0]
    /\ netns = [v \in {} |-> 0]
    /\ cgroups = (Id_ps2 :> [shares |-> CpuShare, mem |-> MemLimit * 1000000])
    /\ run = [p \in Procs |-> IdleRun]
    /\ ncmd = 0

\* the runs started on that host: a command that names the stopped container,
\* and one that does not
RunArgsConc == {<<Id_img1, <<"c">>, Id_ps2>>, <<Id_img1, <<"a">>>>}

\* ids given to logs and exec while a run is in progress: the container of the
\* run, the stopped container, a fragment of both names, no volume
LogsArgsConc == {<<Id_ps1>>, <<Id_ps2>>}
ExecArgs == {<<Id_ps1, <<"t">>>>, <<Id_ps2, <<"t">>>>, <<S_ps, <<"t">>>>, <<Id_none, <<"t">>>>}

\* a run in progress, and logs and exec called at any time from another terminal
NextConc ==
    \/ \E a \in RunArgsConc : RunEntry(Runner, a)
    \/ RunVethAdd(Runner)
    \/ RunVethUp(Runner)
    \/ RunVethMaster(Runner)
    \/ RunNetnsAdd(Runner)
    \/ RunVethMove(Runner)
    \/ RunNsConfig(Runner)
    \/ RunSnapshot(Runner)
    \/ RunResolv(Runner)
    \/ RunCmdFile(Runner)
    \/ RunCgcreate(Runner)
    \/ RunCgsetCpu(Runner)
    \/ RunCgsetMem(Runner)
    \/ RunPipeline(Runner)
    \/ RunChildEnter(Runner)
    \/ RunChildOutput(Runner)
    \/ RunChildWrite(Runner)
    \/ RunChildExit(Runner)
    \/ RunPipelineEnd(Runner)
    \/ RunLinkDel(Runner)
    \/ RunNetnsDel(Runner)
    \/ \E a \in LogsArgsConc, rc \in ExitCodes : LogsConc(a, rc)
    \/ \E a \in ExecArgs, rc \in ExitCodes \cup {ChrootFail} : ExecConc(a, rc)

SpecConc == InitConc /\ [][NextConc]_vars

\* the commands that change nothing, taken between the others
NextView ==
    \/ Next
    \/ \E a \in ListArgs, rc \in ExitCodes : ImagesCmd(a, rc)
    \/ \E a \in ListArgs, rc \in ExitCodes : PsCmd(a, rc)
    \/ \E a \in LogsArgs, rc \in ExitCodes : LogsCmd(a, rc)

SpecView == Init /\ [][NextView]_vars

(* ------------------------ the command line ------------------------ *)
\* the first line of help_text
HelpText == <<"BOCKER - Docker implemented in around 100 lines of bash">>

\* Bocker.help
HelpCmd(args, rc) ==
    /\ CanStart
    /\ UNCHANGED <<store, veth, netns, cgroups>>
    /\ ReturnOut("help", args, 0, rc, HelpText)

\* a first argument that is no key of command_map
CommandNames == {"start"}

\* main with a command that is not in command_map: return bocker.help([])
UnknownCmd(command, args, rc) ==
    /\ CanStart
    /\ UNCHANGED <<store, veth, netns, cgroups>>
    /\ ReturnOut(command, args, 0, rc, HelpText)

\* argument lists of every length up to the number a command requires, with
\* ids that name the volumes of InitConc
InitArgsCli == {<<>>, <<D_base>>}
PullArgsCli == {<<>>, <<<<"c">>>>, <<<<"c">>, <<"7">>>>}
RmArgsCli == {<<>>, <<Id_ps2>>}
CommitArgsCli == {<<>>, <<Id_ps2>>, <<Id_ps2, Id_img1>>}
RunArgsCli == {<<>>, <<Id_img1>>, <<Id_img1, <<" ">>>>, <<Id_img1, <<>>, <<"\t">>>>,
               <<Id_none, <<" ">>>>}
ExecArgsCli == {<<>>, <<Id_ps2>>, <<Id_ps2, <<"t">>>>}
LogsArgsCli == {<<>>, <<Id_ps2>>}

\* the commands of command_map that take arguments, help and a name main does
\* not know, called one after the other on a host with an image, a stopped
\* container and its cgroup; run only with arguments it refuses
NextCli ==
    \/ \E a \in InitArgsCli, rc \in ExitCodes : InitCmd(a, rc)
    \/ \E a \in PullArgsCli, d \in BOOLEAN, f \in Fetches, rc \in ExitCodes : PullCmd(a, d, f, rc)
    \/ \E a \in RmArgsCli, rc \in ExitCodes : RmCmd(a, rc)
    \/ \E a \in CommitArgsCli, rc \in ExitCodes : CommitCmd(a, rc)
    \/ \E a \in RunArgsCli : RunEntry(Runner, a)
    \/ \E a \in ExecArgsCli, rc \in ExitCodes : ExecCmd(a, rc)
    \/ \E a \in LogsArgsCli, rc \in ExitCodes : LogsCmd(a, rc)
    \/ \E a \in ListArgs, rc \in ExitCodes : HelpCmd(a, rc)
    \/ \E c \in CommandNames, a \in ListArgs, rc \in ExitCodes : UnknownCmd(c, a, rc)

SpecCli == InitConc /\ [][NextCli]_vars

\* pull, step by step, on a store that init fills
NextPull ==
    \/ \E a \in InitArgsCli, rc \in ExitCodes : InitCmd(a, rc)
    \/ \E a \in PullArgsCli, d \in BOOLEAN, f \in Archives : PullEntry(Runner, a, d, f)
    \/ PullMakedirs(Runner)
    \/ PullGet(Runner)
    \/ PullExtract(Runner)
    \/ PullManifest(Runner)
    \/ PullLayers(Runner)
    \/ PullCreate(Runner)
    \/ PullCp(Runner)
    \/ PullSource(Runner)
    \/ PullFinally(Runner)

SpecPull == Init /\ [][NextPull]_vars

(* ------------------ a container after its image is removed ------------------ *)
\* ids given to rm and logs on the host of InitConc: the image, the container
\* that was cloned from it, no volume
RmArgsClone == {<<Id_img1>>, <<Id_ps2>>, <<Id_none>>}
LogsArgsClone == {<<Id_ps2>>, <<Id_img1>>}
CommitArgsClone == {<<Id_ps2, Id_img1>>}

\* rm, commit, ps, images and logs called one after the other on a host with an
\* image and a stopped container that was cloned from it
NextClone ==
    \/ \E a \in CommitArgsClone, rc \in ExitCodes : CommitCmd(a, rc)
    \/ \E a \in RmArgsClone, rc \in ExitCodes : RmCmd(a, rc)
    \/ \E a \in ListArgs, rc \in ExitCodes : PsCmd(a, rc)
    \/ \E a \in ListArgs, rc \in ExitCodes : ImagesCmd(a, rc)
    \/ \E a \in LogsArgsClone, rc \in ExitCodes : LogsCmd(a, rc)

SpecClone == InitConc /\ [][NextClone]_vars

(* --------------------- rm while a run is in progress --------------------- *)
\* the next line of the script of the run p, or the next step of its child
RunStep(p) ==
    \/ RunVethAdd(p)
    \/ RunVethUp(p)
    \/ RunVethMaster(p)
    \/ RunNetnsAdd(p)
    \/ RunVethMove(p)
    \/ RunNsConfig(p)
    \/ RunSnapshot(p)
    \/ RunResolv(p)
    \/ RunCmdFile(p)
    \/ RunCgcreate(p)
    \/ RunCgsetCpu(p)
    \/ RunCgsetMem(p)
    \/ RunPipeline(p)
    \/ RunChildEnter(p)
    \/ RunChildOutput(p)
    \/ RunChildWrite(p)
    \/ RunChildExit(p)
    \/ RunPipelineEnd(p)
    \/ RunLinkDel(p)
    \/ RunNetnsDel(p)

\* a process of the container id is in its cgroup: cgdelete cannot remove it
CgroupBusy(id) ==
    \E p \in Procs : /\ run[p].uuid = id /\ run[p].child = "running"
                     /\ \E i \in 1..Len(run[p].ctx) : run[p].ctx[i] = "cgroup"

\* Bocker.rm, called at any time: the check and the script do not look at the
\* processes of the container
RmConc(args, rc) ==
    /\ UNCHANGED <<veth, netns>>
    /\ IF Len(args) < 1 \/ ~bocker_check(store, args[1])
       THEN /\ Observe("rm", args, 1, rc, <<>>)
            /\ UNCHANGED <<store, cgroups>>
       ELSE LET id == args[1] IN
            \/ \* btrfs subvolume delete fails: always when <store>/<id> is no volume
               /\ Observe("rm", args, BtrfsFail, rc, <<>>)
               /\ UNCHANGED <<store, cgroups>>
            \/ /\ is_volume(store, id)
               /\ store' = Drop(store, id)
               /\ cgroups' = IF CgroupBusy(id) THEN cgroups ELSE cgdelete(cgroups, id)
               /\ Observe("rm", args, 0, rc, <<>>)

\* the containers rm is called on while a run is in progress: the one of the
\* run, the stopped one
RmArgsConc == {<<Id_ps1>>, <<Id_ps2>>}

\* a run in progress and rm called at any time from another terminal
NextRm ==
    \/ \E a \in RunArgsConc : RunEntry(Runner, a)
    \/ RunStep(Runner)
    \/ \E a \in RmArgsConc, rc \in ExitCodes : RmConc(a, rc)

SpecRm == InitConc /\ [][NextRm]_vars

(* ------------------------- two runs at a time ------------------------- *)
\* Bocker.run up to the script, called from a terminal of its own while
\* another run may be in progress
RunEntryConc(p, args) ==
    /\ run[p].pc = "idle"
    /\ ncmd < MaxCmds
    /\ ncmd' = ncmd + 1
    /\ UNCHANGED <<store, veth, netns, cgroups>>
    /\ IF Len(args) < 2
       THEN run' = [run EXCEPT ![p] = RunRec("returned", args, <<>>, 1, Host)]
       ELSE LET image_id == args[1]
                command == Join(Tail(args))
                free == free_ids(store, S_ps) IN
            IF ~bocker_check(store, image_id) \/ Strip(command) = <<>> \/ free = {}
            THEN run' = [run EXCEPT ![p] = RunRec("returned", args, <<>>, 1, Host)]
            ELSE \E n \in free :
                 run' = [run EXCEPT ![p] =
                            RunRec("veth_add", args, generate_uuid(S_ps, n), 0, Host)]

\* the runs of the two terminals
RunArgsRace == {<<Id_img1, <<"a">>>>}

\* after init /b: the store holds the image img_42002
InitRace ==
    /\ store = (Id_img1 :> InitTree(D_base))
    /\ veth = [v \in {} |-> 0]
    /\ netns = [v \in {} |-> 0]
    /\ cgroups = [v \in {} |-> 0]
    /\ run = [p \in Procs |-> IdleRun]
    /\ ncmd = 1

\* two terminals, each calling run once; the lines of the two scripts interleave
NextRace ==
    \/ \E p \in Procs, a \in RunArgsRace : RunEntryConc(p, a)
    \/ \E p \in Procs : RunStep(p)

SpecRace == InitRace /\ [][NextRace]_vars

(* ------------------- the addresses of the whole id range ------------------- *)
\* the arguments of the run whose network is set up
RunArgsIp == <<Id_img1, <<"a">>>>

\* after init /b, run img_42002 a has passed its checks and drawn its id: any
\* ps_<n> of random.randint's whole range, the store holding only the image
InitIp ==
    /\ store = (Id_img1 :> InitTree(D_base))
    /\ veth = [v \in {} |-> 0]
    /\ netns = [v \in {} |-> 0]
    /\ cgroups = [v \in {} |-> 0]
    /\ ncmd = 2
    /\ \E n \in UuidLo..UuidHi :
         run = [p \in Procs |->
                  IF p = Runner
                  THEN RunRec("veth_add", RunArgsIp, generate_uuid(S_ps, n), 0,
                              [store |-> store, veth |-> veth, netns |-> netns,
                               cgroups |-> cgroups])
                  ELSE IdleRun]

\* the network lines of run's script
NextIp ==
    \/ RunVethAdd(Runner)
    \/ RunVethUp(Runner)
    \/ RunVethMaster(Runner)
    \/ RunNetnsAdd(Runner)
    \/ RunVethMove(Runner)
    \/ RunNsConfig(Runner)

SpecIp == InitIp /\ [][NextIp]_vars

(* ------------------------------- claims ------------------------------- *)
\* a run that has returned
Returned(p) == run[p].pc = "returned"

\* a run that went through its script and returned 0
RunSucceeded(p) == Returned(p) /\ run[p].uuid # <<>> /\ run[p].rc = 0

Digit(c) == \E i \in 1..10 : DigitChars[i] = c

\* v is prefix followed by a decimal number
HasForm(v, prefix) ==
    /\ HasPrefix(v, prefix)
    /\ Len(v) > Len(prefix)
    /\ \A i \in (Len(prefix) + 1)..Len(v) : Digit(v[i])

\* C1: when a run on an existing image with a non-empty command returns after
\* every step has succeeded, the store holds exactly one volume more, a ps_
\* volume; ps lists its id with the arguments joined by single spaces as the
\* command; <id>.log exists and holds what the child wrote; every other volume
\* is as it was.
C1_RunAddsOneContainer ==
    \A p \in Procs : RunSucceeded(p) =>
        LET u == run[p].uuid
            pre == run[p].pre.store IN
        /\ u \notin DOMAIN pre
        /\ HasForm(u, S_ps)
        /\ DOMAIN store = DOMAIN pre \cup {u}
        /\ <<u, Join(Tail(run[p].args))>> \in list_containers(store)
        /\ LogFile(u) \in DOMAIN store[u]
        /\ store[u][LogFile(u)] = run[p].out
        /\ \A v \in DOMAIN pre : store[v] = pre[v]

\* the step adds exactly one volume, named img_<n>, that images lists with the
\* source src, and leaves every other volume as it was
AddsImage(src) ==
    \E v \in (DOMAIN store') \ (DOMAIN store) :
        /\ DOMAIN store' = DOMAIN store \cup {v}
        /\ HasForm(v, S_img)
        /\ <<v, src>> \in list_images(store')
        /\ \A w \in DOMAIN store : store'[w] = store[w]

\* C2: a successful init(dir) and a successful pull(name, tag) add exactly one
\* volume img_<n>, which images lists with the source dir, resp. name:tag, and
\* change no other volume.
C2_InitPullAddOneImage ==
    [][ /\ \A a \in InitArgs : InitCmd(a, 0) => AddsImage(a[1])
        /\ \A a \in PullArgs, d \in BOOLEAN, f \in Fetches :
              PullCmd(a, d, f, 0) => AddsImage(a[1] \o <<":">> \o a[2]) ]_vars

\* the script lines of the per-container network setup
NetworkSteps == {"veth_add", "veth_up", "veth_master", "netns_add", "veth_move", "ns_config"}

\* the script lines after the network setup and before the child
LaterSetupSteps == {"snapshot", "resolv", "cmd", "cgcreate", "cgset_cpu", "cgset_mem"}

\* C3: a run whose image id names no volume of the store (a fragment of a
\* volume name included) returns non-zero, adds no volume and leaves no veth
\* pair, no network namespace and no cgroup behind (stated for the runs whose
\* network setup did not fail, which is the case of C4).
C3_RunUnknownImageLeavesNothing ==
    \A p \in Procs :
        (/\ Returned(p)
         /\ Len(run[p].args) >= 2
         /\ ImageId(run[p]) \notin DOMAIN run[p].pre.store
         /\ run[p].at \notin NetworkSteps)
        => /\ run[p].rc # 0
           /\ DOMAIN store = DOMAIN run[p].pre.store
           /\ veth = run[p].pre.veth
           /\ netns = run[p].pre.netns
           /\ cgroups = run[p].pre.cgroups

\* C4: when a step of the network setup of run has failed, neither the veth
\* pair nor the network namespace of that id exists when run returns.
C4_NetworkFailureReleasesNetwork ==
    \A p \in Procs :
        (Returned(p) /\ run[p].at \in NetworkSteps)
        => /\ run[p].uuid \notin DOMAIN veth
           /\ run[p].uuid \notin DOMAIN netns

\* C5: when the snapshot, the resolv.conf write, the .cmd write or a cgroup
\* step of run has failed, no volume, no veth pair, no network namespace and
\* no cgroup of that id remains when run returns.
C5_SetupFailureReleasesAll ==
    \A p \in Procs :
        (Returned(p) /\ run[p].at \in LaterSetupSteps)
        => /\ run[p].uuid \notin DOMAIN store
           /\ run[p].uuid \notin DOMAIN veth
           /\ run[p].uuid \notin DOMAIN netns
           /\ run[p].uuid \notin DOMAIN cgroups

IsPrefix(s, t) == Len(s) <= Len(t) /\ SubSeq(t, 1, Len(s)) = s

\* C7: every run acquires its resources in the order snapshot, resolv.conf,
\* .cmd, network, cgroup, child, and a run that returns after a failed step
\* has released all of them.
C7_AcquireOrderAndRelease ==
    \A p \in Procs :
        /\ IsPrefix(run[p].acq, <<"snapshot", "resolv", "cmd", "network", "cgroup", "child">>)
        /\ (Returned(p) /\ run[p].at # "")
           => /\ run[p].uuid \notin DOMAIN store
              /\ run[p].uuid \notin DOMAIN veth
              /\ run[p].uuid \notin DOMAIN netns
              /\ run[p].uuid \notin DOMAIN cgroups

\* C8: the child enters its contexts in the order cgroup, network namespace,
\* unshare, chroot, shell, proc mount; what a context needs (the cgroup, the
\* namespace, the volume) exists while the child is inside it; the contained
\* command starts only with all six entered, so not when the proc mount failed.
C8_NestingOrder ==
    \A p \in Procs :
        LET r == run[p]
            entered == {r.ctx[i] : i \in 1..Len(r.ctx)} IN
        /\ IsPrefix(r.ctx, <<"cgroup", "netns", "unshare", "chroot", "sh", "proc">>)
        /\ r.started => r.ctx = <<"cgroup", "netns", "unshare", "chroot", "sh", "proc">>
        /\ r.child = "running"
           => /\ "cgroup" \in entered => r.uuid \in DOMAIN cgroups
              /\ "netns" \in entered => r.uuid \in DOMAIN netns
              /\ "chroot" \in entered => r.uuid \in DOMAIN store

\* C9: a container whose child is running or has exited has the file <id>.cmd,
\* holding its command, and ps lists it with that command.
C9_CmdFileBeforeChild ==
    \A p \in Procs :
        LET r == run[p] IN
        (r.child \in {"running", "exited"} /\ r.uuid \in DOMAIN store)
        => /\ CmdFile(r.uuid) \in DOMAIN store[r.uuid]
           /\ store[r.uuid][CmdFile(r.uuid)] = Command(r) \o <<NL>>
           /\ <<r.uuid, Command(r)>> \in list_containers(store)

\* the container id has its snapshot volume with <id>.cmd and <id>.log and its
\* cgroup, and no run is in progress: a stopped container
Stopped(id) ==
    /\ NoRunActive
    /\ HasForm(id, S_ps)
    /\ id \in DOMAIN store
    /\ CmdFile(id) \in DOMAIN store[id]
    /\ LogFile(id) \in DOMAIN store[id]
    /\ id \in DOMAIN cgroups

\* C10: when the child has exited and run has returned, the cgroup, the
\* snapshot volume and the files <id>.cmd and <id>.log of the container exist,
\* and they stay until rm is called on that id.
C10_ContainerStaysUntilRm ==
    /\ [](\A p \in Procs : (Returned(p) /\ run[p].child = "exited") => Stopped(run[p].uuid))
    /\ [][\A id \in DOMAIN store :
            (Stopped(id) /\ ~(\E rc \in ExitCodes : RmCmd(<<id>>, rc)))
            => /\ id \in DOMAIN store'
               /\ CmdFile(id) \in DOMAIN store'[id]
               /\ LogFile(id) \in DOMAIN store'[id]
               /\ id \in DOMAIN cgroups']_vars

\* the one-step command cmd has just returned
Stepped(cmd) == run[Stepper].at = cmd

C12_RmRemovesVolume ==
    LET c == run[Stepper] IN
    (Stepped("rm") /\ c.rc = 0 /\ c.args[1] \in DOMAIN c.pre.store)
    => /\ ~bocker_check(store, c.args[1])
       /\ \A row \in list_images(store) \cup list_containers(store) : row[1] # c.args[1]
       /\ DOMAIN store = (DOMAIN c.pre.store) \ {c.args[1]}
       /\ \A v \in DOMAIN store : store[v] = c.pre.store[v]
       /\ ~ENABLED RmCmd(c.args, 0)

\* rm has succeeded on a volume, and a further command can follow
C12_Witness ==
    LET c == run[Stepper] IN
    /\ Stepped("rm")
    /\ c.rc = 0
    /\ c.args[1] \in DOMAIN c.pre.store
    /\ c.args[1] \notin DOMAIN store
    /\ ncmd < MaxCmds

\* C13: after rm has succeeded on a container there is no cgroup of its id, and
\* the other cgroups, the veth pairs and the network namespaces are as they
\* were; an rm that deletes the volume of a container without a cgroup
\* returns 0 as well.
C13_RmDeletesCgroup ==
    LET c == run[Stepper] IN
    (Stepped("rm") /\ HasForm(c.args[1], S_ps) /\ c.args[1] \in DOMAIN c.pre.store)
    => /\ c.rc = 0
          => /\ c.args[1] \notin DOMAIN cgroups
             /\ \A g \in (DOMAIN c.pre.cgroups) \ {c.args[1]} :
                   g \in DOMAIN cgroups /\ cgroups[g] = c.pre.cgroups[g]
             /\ veth = c.pre.veth
             /\ netns = c.pre.netns
       /\ (c.args[1] \notin DOMAIN store /\ c.args[1] \notin DOMAIN c.pre.cgroups)
          => c.rc = 0

\* rm has succeeded on a container that had a cgroup, while a veth pair of a
\* failed run was on the host
C13_Witness ==
    LET c == run[Stepper] IN
    /\ Stepped("rm")
    /\ c.rc = 0
    /\ HasForm(c.args[1], S_ps)
    /\ c.args[1] \in DOMAIN c.pre.store
    /\ c.args[1] \in DOMAIN c.pre.cgroups
    /\ c.args[1] \notin DOMAIN cgroups
    /\ DOMAIN veth # {}

C15_CommitUnknownChangesNothing ==
    LET c == run[Stepper] IN
    (/\ Stepped("commit")
     /\ Len(c.args) = 2
     /\ \/ c.args[1] \notin DOMAIN c.pre.store
        \/ c.args[2] \notin DOMAIN c.pre.store)
    => /\ c.rc # 0
       /\ store = c.pre.store
       /\ cgroups = c.pre.cgroups

\* C16: a commit whose two ids pass the existence checks, the two being the
\* same id included, leaves the volume of the container as it was, whatever
\* its status.
C16_CommitKeepsContainer ==
    LET c == run[Stepper] IN
    (/\ Stepped("commit")
     /\ Len(c.args) = 2
     /\ bocker_check(c.pre.store, c.args[1])
     /\ bocker_check(c.pre.store, c.args[2])
     /\ c.args[1] \in DOMAIN c.pre.store)
    => /\ c.args[1] \in DOMAIN store
       /\ store[c.args[1]] = c.pre.store[c.args[1]]

\* C18: logs(id) returns non-zero and prints nothing when no volume is named
\* id, returns non-zero when the volume has no <id>.log, and otherwise returns 0
\* and prints the content of <id>.log as it is; the host is never changed.
C18_LogsPrintsLogUnmodified ==
    LET c == run[Stepper]
        id == c.args[1] IN
    Stepped("logs")
    => /\ Host = c.pre
       /\ id \notin DOMAIN store => (c.rc # 0 /\ c.out = <<>>)
       /\ (id \in DOMAIN store /\ LogFile(id) \notin DOMAIN store[id]) => c.rc # 0
       /\ (id \in DOMAIN store /\ LogFile(id) \in DOMAIN store[id])
          => (c.rc = 0 /\ c.out = store[id][LogFile(id)])

\* the text s cut at every c
RECURSIVE SplitAt(_, _)
SplitAt(s, c) ==
    IF \A i \in 1..Len(s) : s[i] # c THEN <<s>>
    ELSE LET k == CHOOSE i \in 1..Len(s) : s[i] = c /\ \A j \in 1..(i - 1) : s[j] # c IN
         <<SubSeq(s, 1, k - 1)>> \o SplitAt(SubSeq(s, k + 1, Len(s)), c)

\* out is the header line followed by one line for each volume of vols, each
\* beginning with the volume's id and two tabs, and by nothing else
IsListing(out, headers, vols) ==
    LET ls == SplitAt(out, NL) IN
    /\ Len(ls) = Cardinality(vols) + 2
    /\ ls[1] = JoinSep(headers, TabTab)
    /\ ls[Len(ls)] = <<>>
    /\ \A v \in vols : \E i \in 2..(Len(ls) - 1) : HasPrefix(ls[i], v \o TabTab)

\* C20: images (ps) prints the header line and then exactly one row for each
\* img_ (ps_) volume of the store, the row being the id, two tabs and the
\* source (command); with no such volume it prints the header line only.
C20_ListingHasRowPerVolume ==
    LET c == run[Stepper] IN
    /\ Stepped("images")
       => IsListing(c.out, ImagesHeaders, {v \in DOMAIN store : HasPrefix(v, S_img)})
    /\ Stepped("ps")
       => IsListing(c.out, PsHeaders, {v \in DOMAIN store : HasPrefix(v, S_ps)})

\* the child of the container named id is running
ChildRunning(id) == \E p \in Procs : run[p].uuid = id /\ run[p].child = "running"

\* C17: exec(ctr, cmd) runs cmd only when the child of ctr is running; on a
\* stopped container and on an id that names no volume it returns non-zero,
\* runs nothing and changes nothing.
C17_ExecOnlyWhenRunning ==
    [][\A a \in ExecArgs, rc \in ExitCodes \cup {ChrootFail} :
          (ExecConc(a, rc) /\ ~ChildRunning(a[1]))
          => /\ rc # 0
             /\ run'[Stepper].out = <<>>
             /\ Host' = Host]_vars

\* a run is in its script
InProgress(p) == run[p].pc \notin {"idle", "returned"}

\* C19: while a run is in progress the log of its container only grows, and
\* what a logs of that container printed meanwhile is a prefix of what logs
\* prints once the child has ended.
C19_LogOnlyGrows ==
    /\ [][\A p \in Procs :
            LET u == run[p].uuid IN
            (InProgress(p) /\ log_file_exists(store, u))
            => /\ log_file_exists(store', u)
               /\ IsPrefix(store[u][LogFile(u)], store'[u][LogFile(u)])]_vars
    /\ [](\A p \in Procs :
            LET c == run[Stepper] IN
            (/\ Stepped("logs")
             /\ c.rc = 0
             /\ c.args[1] = run[p].uuid
             /\ run[p].child = "exited"
             /\ log_file_exists(store, run[p].uuid))
            => IsPrefix(c.out, logs(store, c.args).out))

\* the ids the existence check is asked about: the volumes the model can
\* create, a fragment of their names, the empty string, an id of no volume
CheckedIds == {Id_img1, Id_ps1, S_img, S_ps, Id_empty, Id_none}

\* C21: the existence check is true for an id exactly when a volume of the
\* store has that id as its name; it is false for the empty string and for a
\* string that is only a part of a volume's name.
C21_CheckIsExactName ==
    \A id \in CheckedIds : bocker_check(store, id) <=> id \in DOMAIN store

\* C27: every img_ volume of the store holds an img.source file, in every
\* state, also after an init, pull or commit that failed part-way.
C27_ImageHasSource ==
    \A v \in DOMAIN store : HasPrefix(v, S_img) => F_source \in DOMAIN store[v]

\* every id the generator can draw for prefix names a volume of st
AllInUse(st, prefix) == \A n \in RandRange : generate_uuid(prefix, n) \in DOMAIN st

DigitVal(c) == (CHOOSE i \in 1..10 : DigitChars[i] = c) - 1

RECURSIVE DecVal(_)
\* int(s) of a string of decimal digits
DecVal(s) == IF s = <<>> THEN 0
             ELSE 10 * DecVal(SubSeq(s, 1, Len(s) - 1)) + DigitVal(s[Len(s)])

\* the part of the address 10.0.0.<suffix> of namespace u after 10.0.0.
AddrSuffix(u) == Tail(netns[u].addr)

\* C24: for every container id ps_<n>, n in 42002..42254, the suffix of the
\* address given to the container is a non-empty decimal number between 1 and
\* 254 without the digit 0 in front: 10.0.0.0 is never assigned.
C24_IpSuffixInRange ==
    \A u \in DOMAIN netns :
        netns[u].addr # <<>> =>
            /\ netns[u].addr[1] = "10.0.0."
            /\ AddrSuffix(u) # <<>>
            /\ \A i \in 1..Len(AddrSuffix(u)) : Digit(AddrSuffix(u)[i])
            /\ AddrSuffix(u)[1] # "0"
            /\ DecVal(AddrSuffix(u)) \in 1..254

\* the container ps_42100, whose last three characters hold two zeros, has been
\* given the address 10.0.0.1, and ps_42254 the address 10.0.0.254
C24_Witness ==
    /\ run[Runner].uuid \in {generate_uuid(S_ps, 42100), generate_uuid(S_ps, UuidHi)}
    /\ run[Runner].uuid \in DOMAIN netns
    /\ netns[run[Runner].uuid].addr # <<>>
    /\ DecVal(AddrSuffix(run[Runner].uuid)) \in {1, 254}

\* s holds nothing but white space
IsBlank(s) == \A i \in 1..Len(s) : s[i] \in Whitespace

\* the number of arguments a command requires
Required ==
    ("pull" :> 2) @@ ("init" :> 1) @@ ("rm" :> 1) @@ ("exec" :> 2) @@ ("logs" :> 1)
    @@ ("commit" :> 2)

\* C25: a command called with fewer arguments than it requires (pull 2, init 1,
\* rm 1, run 2, exec 2, logs 1, commit 2), and a run whose command is empty or
\* only white space, returns exactly 1 and leaves the store and the rest of the
\* host as they were.
C25_UsageErrorChangesNothing ==
    /\ ( /\ run[Stepper].at \in DOMAIN Required
         /\ Len(run[Stepper].args) < Required[run[Stepper].at] )
       => (run[Stepper].rc = 1 /\ Host = run[Stepper].pre)
    /\ \A p \in Procs :
         ( /\ run[p].pc # "idle"
           /\ \/ Len(run[p].args) < 2
              \/ IsBlank(Command(run[p])) )
         => (Returned(p) /\ run[p].rc = 1 /\ run[p].uuid = <<>> /\ Host = run[p].pre)

\* a commit with one argument has returned on a host that holds volumes and a
\* cgroup (the run with a blank command on an existing image: C25_WitnessRun)
C25_Witness ==
    /\ Stepped("commit")
    /\ Len(run[Stepper].args) = 1
    /\ run[Stepper].rc = 1
    /\ DOMAIN store # {} /\ DOMAIN cgroups # {}

C25_WitnessRun ==
    /\ Returned(Runner)
    /\ Len(run[Runner].args) >= 2
    /\ ImageId(run[Runner]) \in DOMAIN store
    /\ IsBlank(Command(run[Runner]))
    /\ run[Runner].rc = 1

\* what the one-step command that has just returned was called to do is done:
\* init has added an image volume with its img.source, rm has removed the
\* volume it names, commit has made the image a copy of the container, help
\* has printed its text; a command name main does not know does nothing
Succeeded ==
    LET r == run[Stepper] IN
    CASE r.at = "init" ->
           \E v \in DOMAIN store \ DOMAIN r.pre.store :
               HasPrefix(v, S_img) /\ F_source \in DOMAIN store[v]
      [] r.at = "rm" ->
           Len(r.args) >= 1 /\ r.args[1] \in DOMAIN r.pre.store /\ r.args[1] \notin DOMAIN store
      [] r.at = "commit" ->
           /\ Len(r.args) >= 2
           /\ r.args[1] \in DOMAIN r.pre.store
           /\ r.args[2] \in DOMAIN store
           /\ store[r.args[2]] = r.pre.store[r.args[1]]
      [] r.at = "help" -> r.out = HelpText
      [] OTHER -> FALSE

\* C26: a command returns 0 only when what it was called to do is done, and
\* every failure returns a non-zero status, 1 when the arguments or the
\* command name are wrong: an unknown command name returns 1, and init, rm and
\* commit return non-zero when a step of theirs fails.
C26_StatusTellsSuccess ==
    run[Stepper].at \in {"init", "rm", "commit", "help"} \cup CommandNames
    => /\ run[Stepper].rc = 0 => Succeeded
       /\ run[Stepper].at \in CommandNames => run[Stepper].rc = 1

\* the same for the commands of command_map alone
C26_KnownCommands ==
    run[Stepper].at \in {"init", "rm", "commit", "help"}
    => (run[Stepper].rc = 0 => Succeeded)

\* a pull that took its steps one by one
Pulled(p) == run[p].pc # "idle" /\ run[p].at = "pull"

\* C28: a pull of an archive that holds no manifest.json returns non-zero and
\* the store is as it was before the pull.
C28_NoManifestLeavesStore ==
    \A p \in Procs :
        (Pulled(p) /\ run[p].archive = "no_manifest")
        => /\ store = run[p].pre.store
           /\ Returned(p) => run[p].rc # 0

\* a pull has downloaded and extracted an archive without manifest.json and
\* has returned, on a store that holds an image
C28_Witness ==
    /\ Pulled(Runner) /\ Returned(Runner)
    /\ run[Runner].archive = "no_manifest"
    /\ "scratch" \in {run[Runner].acq[i] : i \in 1..Len(run[Runner].acq)}
    /\ run[Runner].rc = 1
    /\ DOMAIN store # {}

\* C29: a pull of an archive whose manifest lists a layer that the extracted
\* tree does not hold fails: it returns non-zero and creates no image.
C29_MissingLayerFails ==
    \A p \in Procs :
        (Pulled(p) /\ run[p].archive = "missing_layer")
        => /\ store = run[p].pre.store
           /\ Returned(p) => run[p].rc # 0

\* C30: when a pull that had created its scratch directories returns, on
\* whatever path, the scratch base directory and all under it is removed.
C30_ScratchRemoved ==
    \A p \in Procs :
        ( /\ Pulled(p) /\ Returned(p)
          /\ "scratch" \in {run[p].acq[i] : i \in 1..Len(run[p].acq)} )
        => run[p].tmp = NoScratch

\* a pull has returned after its script failed at cp, the last place to fail,
\* with the process directory filled
C30_Witness ==
    /\ Pulled(Runner) /\ Returned(Runner)
    /\ "scratch" \in {run[Runner].acq[i] : i \in 1..Len(run[Runner].acq)}
    /\ run[Runner].uuid \in DOMAIN store
    /\ F_source \notin DOMAIN store[run[Runner].uuid]
    /\ run[Runner].rc # 0

\* C22: init, pull and run never go on with an id that names a volume: a
\* colliding id is replaced by a new draw, and the volumes that were there
\* stay as they were.
C22_FreshIdOrRetry ==
    \A p \in Procs :
        (run[p].pc # "idle" /\ run[p].uuid # <<>>)
        => /\ run[p].uuid \notin DOMAIN run[p].pre.store
           /\ \A v \in DOMAIN run[p].pre.store :
                  v \in DOMAIN store /\ store[v] = run[p].pre.store[v]

\* the second part alone: the volumes that were there stay as they were
C22_ExistingUntouched ==
    \A p \in Procs :
        (run[p].pc # "idle" /\ run[p].uuid # <<>>)
        => \A v \in DOMAIN run[p].pre.store :
               v \in DOMAIN store /\ store[v] = run[p].pre.store[v]

\* the ids of the whole range other than u
OtherIds(u) == {generate_uuid(S_ps, n) : n \in UuidLo..UuidHi} \ {u}

\* C35: no container gets the address of the bridge, 10.0.0.1, and two
\* containers with different ids of 42002..42254 never get the same address.
C35_AddressNotGatewayAndUnique ==
    \A u \in DOMAIN netns :
        netns[u].addr # <<>> =>
            /\ netns[u].addr # <<"10.0.0.", "1">>
            /\ \A w \in OtherIds(u) : <<"10.0.0.">> \o ip_suffix(w) # netns[u].addr

\* C36: two container ids ps_<a>, ps_<b> with a # b in 42002..42254 get
\* different MAC suffixes, hence different MAC addresses.
C36_MacSuffixInjective ==
    \A u \in DOMAIN netns :
        netns[u].mac # <<>> =>
            \A w \in OtherIds(u) :
                <<"02:42:ac:11:00">> \o mac_suffix(w) # netns[u].mac

\* the container ps_42102, whose last two characters are those of ps_42002, has
\* been given its MAC address
C36_Witness ==
    /\ run[Runner].uuid = generate_uuid(S_ps, 42102)
    /\ run[Runner].uuid \in DOMAIN netns
    /\ netns[run[Runner].uuid].mac = <<"02:42:ac:11:00", "1", ":", "0", "2">>

\* the lines of run's script after the pipeline
TeardownLines == {"link_del", "netns_del"}

InRange(v, prefix) ==
    /\ HasForm(v, prefix)
    /\ DecVal(SubSeq(v, Len(prefix) + 1, Len(v))) \in UuidLo..UuidHi
    /\ v = prefix \o ToStr(DecVal(SubSeq(v, Len(prefix) + 1, Len(v))))

\* C37: after any sequence of init, pull, run, commit and rm every volume of
\* the store is named img_<n> or ps_<n> with n in 42002..42254 (so there are at
\* most 253 of each), and a commit leaves no volume name in the store that was
\* not there before it.
C37_VolumeNamesInRange ==
    /\ \A v \in DOMAIN store : InRange(v, S_img) \/ InRange(v, S_ps)
    /\ Cardinality({v \in DOMAIN store : HasPrefix(v, S_img)}) <= UuidHi - UuidLo + 1
    /\ Cardinality({v \in DOMAIN store : HasPrefix(v, S_ps)}) <= UuidHi - UuidLo + 1
    /\ Stepped("commit") => DOMAIN store \subseteq DOMAIN run[Stepper].pre.store

\* a commit of a container to an image has returned 0 on a store that holds
\* an image and a container
C37_Witness ==
    /\ Stepped("commit")
    /\ run[Stepper].rc = 0
    /\ \E v \in DOMAIN store : HasPrefix(v, S_img)
    /\ \E v \in DOMAIN store : HasPrefix(v, S_ps)
    /\ DOMAIN store = DOMAIN run[Stepper].pre.store

\* the ps_ volumes of st that ps lists
Listed(st) == {v \in DOMAIN st : HasPrefix(v, S_ps) /\ CmdFile(v) \in DOMAIN st[v]}

\* the command that has just returned was called when the store held
\* containers and no image any more
ImageGone == /\ Listed(run[Stepper].pre.store) # {}
             /\ \A v \in DOMAIN run[Stepper].pre.store : ~HasPrefix(v, S_img)

\* C34: a container does not depend on the image it was cloned from: an rm of
\* the image that succeeds leaves every container in the store with its
\* content unchanged, and afterwards ps still lists the container with its
\* command, logs still prints its log, and rm still removes it.
C34_CloneOutlivesImage ==
    LET c == run[Stepper] IN
    /\ (Stepped("rm") /\ c.rc = 0 /\ HasPrefix(c.args[1], S_img))
       => \A v \in DOMAIN c.pre.store \ {c.args[1]} :
              v \in DOMAIN store /\ store[v] = c.pre.store[v]
    /\ (Stepped("ps") /\ ImageGone)
       => /\ c.rc = 0
          /\ IsListing(c.out, PsHeaders, Listed(store))
          /\ \A v \in Listed(store) :
                \E i \in 1..Len(SplitAt(c.out, NL)) :
                    SplitAt(c.out, NL)[i] = v \o TabTab \o Strip(store[v][CmdFile(v)])
    /\ (Stepped("logs") /\ ImageGone /\ log_file_exists(c.pre.store, c.args[1]))
       => (c.rc = 0 /\ c.out = ReadText(store[c.args[1]][LogFile(c.args[1])]))
    /\ (Stepped("rm") /\ ImageGone /\ c.args[1] \in Listed(c.pre.store) /\ c.rc = 0)
       => (c.args[1] \notin DOMAIN store /\ c.args[1] \notin DOMAIN cgroups)

\* the image was removed, and an rm of the container that was cloned from it
\* has returned 0 (ps and logs after the removal: C34_WitnessPs, C34_WitnessLogs)
C34_Witness ==
    /\ Stepped("rm") /\ ImageGone
    /\ run[Stepper].args[1] \in Listed(run[Stepper].pre.store)
    /\ run[Stepper].rc = 0
    /\ DOMAIN store = {}

C34_WitnessPs == Stepped("ps") /\ ImageGone /\ run[Stepper].rc = 0

C34_WitnessLogs == Stepped("logs") /\ ImageGone /\ run[Stepper].out # <<>>

\* C33: the volume of a container leaves the store only when the container is
\* stopped: no step, an rm called while the run is in progress included,
\* removes the volume of a container whose child is running.
C33_RunningVolumeStays ==
    [][\A v \in DOMAIN store : ChildRunning(v) => v \in DOMAIN store']_vars

\* the run p has launched its child
Launched(p) == run[p].child # "none"

\* both runs passed the existence check with the same container id
SameId == run[Runner].uuid # <<>> /\ run[Runner].uuid = run[Stepper].uuid

\* C39: when two runs execute at the same time and both pass the existence
\* check with the same container id, at most one of them launches a child
\* under that id.
C39_OneRunPerId == SameId => ~(Launched(Runner) /\ Launched(Stepper))

RECURSIVE Flattened(_)
\* the layers laid one over the other, base first: every path holds what the
\* last layer that wrote it holds
Flattened(layers) ==
    IF layers = <<>> THEN EmptyTree
    ELSE LayerMembers(layers[Len(layers)]) @@ Flattened(SubSeq(layers, 1, Len(layers) - 1))

\* every layer the manifest of the archive lists is a member of the archive
LayersPresent(archive) ==
    /\ F_manifest \in DOMAIN Extracted(archive)
    /\ \A i \in 1..Len(ManifestLayers(archive)) :
           ManifestLayers(archive)[i] \in DOMAIN Extracted(archive)

\* C32: pull lays the layers of the manifest one over the other in the order
\* of the manifest: in the image of a pull that returned 0 every path that
\* layers wrote holds the content of the last layer that wrote it, and no
\* layer tar is left.
C32_LastLayerWins ==
    \A p \in Procs :
        (Pulled(p) /\ Returned(p) /\ run[p].rc = 0 /\ LayersPresent(run[p].archive))
        => LET image == store[run[p].uuid]
               layers == ManifestLayers(run[p].archive) IN
           /\ \A f \in DOMAIN Flattened(layers) :
                  f \in DOMAIN image /\ image[f] = Flattened(layers)[f]
           /\ \A i \in 1..Len(layers) : layers[i] \notin DOMAIN image

\* the same for the manifests that list no layer twice
C32_DistinctLayers ==
    \A p \in Procs :
        ( /\ Pulled(p) /\ Returned(p) /\ run[p].rc = 0 /\ LayersPresent(run[p].archive)
          /\ run[p].archive # "repeated_layer" )
        => LET image == store[run[p].uuid]
               layers == ManifestLayers(run[p].archive) IN
           /\ \A f \in DOMAIN Flattened(layers) :
                  f \in DOMAIN image /\ image[f] = Flattened(layers)[f]
           /\ \A i \in 1..Len(layers) : layers[i] \notin DOMAIN image

\* C31: whenever a command exits non-zero it has written a diagnostic for that
\* failure to stderr before it returns; stated for exec, whose script output
\* is streamed, the "exists but is not running" case included.
C31_FailureWritesStderr ==
    LET c == run[Stepper] IN
    (Stepped("exec") /\ c.rc # 0)
    => exec_stderr(c.pre.store, c.args, c.rc) # ""

====
